---- MODULE Spec2Model ----
(***************************************************************************)
(* Model of src/transaction_decoder.py: the Bitcoin transaction hex        *)
(* decoder parse_transaction with its primitive readers read_bytes and     *)
(* read_varint.                                                            *)
(*                                                                         *)
(* Representation.                                                         *)
(*   - tx_hex is a Python str: a sequence of one-character strings.  The   *)
(*     alphabet is the lowercase hex digits plus "g", a character that is  *)
(*     no hex digit.                                                       *)
(*   - bytes objects are sequences of naturals 0..255.                     *)
(*   - A Python int produced by int(s, 16) or int.from_bytes is unbounded; *)
(*     it is kept as a base-16 numeral: the sequence of its digit values,  *)
(*     most significant first, without leading zeros (<<>> is 0).  Val     *)
(*     turns a numeral into a natural where the code computes with it.     *)
(*   - offset is a natural: an index into tx_hex counted in characters     *)
(*     (two per byte), as in the code.                                     *)
(***************************************************************************)
EXTENDS Naturals, Sequences

VARIABLES tx_hex,   \* the argument of parse_transaction
          frame,    \* the locals of the running parse_transaction call
          origin    \* how tx_hex was built (the transaction it encodes, the edit)

vars == <<tx_hex, frame, origin>>

----------------------------------------------------------------------------
(* Python built-ins the decoder calls *)

HexChars == <<"0", "1", "2", "3", "4", "5", "6", "7",
              "8", "9", "a", "b", "c", "d", "e", "f">>

IsHexChar(c) == \E d \in 1..Len(HexChars) : HexChars[d] = c

DigitOf(c) == (CHOOSE d \in 1..Len(HexChars) : HexChars[d] = c) - 1

IsHex(s) == \A i \in 1..Len(s) : IsHexChar(s[i])

\* s[a:b] for 0 <= a: the slice is clamped to the string, never an error
Slice(s, a, b) ==
    LET hi == IF b < Len(s) THEN b ELSE Len(s)
    IN IF a >= hi THEN <<>> ELSE SubSeq(s, a + 1, hi)

\* b[::-1]
Reversed(b) == [i \in 1..Len(b) |-> b[Len(b) + 1 - i]]

\* a digit sequence without its leading zeros
RECURSIVE Norm(_)
Norm(d) == IF d = <<>> THEN <<>>
           ELSE IF Head(d) = 0 THEN Norm(Tail(d)) ELSE d

\* int(s, 16): ValueError on the empty string and on a non-hex character
int16(s) ==
    IF s = <<>> \/ ~IsHex(s)
    THEN [ok |-> FALSE, value |-> <<>>]
    ELSE [ok |-> TRUE, value |-> Norm([i \in 1..Len(s) |-> DigitOf(s[i])])]

\* bytes.fromhex(s): ValueError on an odd number of characters and on a
\* non-hex character
fromhex(s) ==
    IF Len(s) % 2 # 0 \/ ~IsHex(s)
    THEN [ok |-> FALSE, bytes |-> <<>>]
    ELSE [ok |-> TRUE,
          bytes |-> [i \in 1..(Len(s) \div 2) |->
                        16 * DigitOf(s[2 * i - 1]) + DigitOf(s[2 * i])]]

\* b.hex()
hex(b) ==
    [i \in 1..(2 * Len(b)) |->
        IF i % 2 = 1 THEN HexChars[(b[(i + 1) \div 2] \div 16) + 1]
                     ELSE HexChars[(b[i \div 2] % 16) + 1]]

\* the two digit values of every byte, in order
DigitsOf(b) ==
    [i \in 1..(2 * Len(b)) |->
        IF i % 2 = 1 THEN b[(i + 1) \div 2] \div 16 ELSE b[i \div 2] % 16]

\* int.from_bytes read most significant byte first
from_bytes_big(b) == Norm(DigitsOf(b))

\* int.from_bytes(b, byteorder='little')
from_bytes_little(b) == Norm(DigitsOf(Reversed(b)))

\* the natural a numeral stands for
RECURSIVE Val(_)
Val(n) == IF n = <<>> THEN 0
          ELSE 16 * Val(SubSeq(n, 1, Len(n) - 1)) + n[Len(n)]

\* the numeral of a natural
RECURSIVE Num(_)
Num(k) == IF k = 0 THEN <<>> ELSE Append(Num(k \div 16), k % 16)

\* k < n for a natural k below 16^7 and a numeral n, as range(n) tests it
Below(k, n) == Len(n) > 7 \/ k < Val(n)

----------------------------------------------------------------------------
(* The primitive readers *)

\* read_bytes(tx_hex, offset, length), length a natural
read_bytes(h, offset, length) ==
    LET r == fromhex(Slice(h, offset, offset + length * 2))
    IN [ok |-> r.ok, bytes_data |-> r.bytes, offset |-> offset + length * 2]

\* read_varint giving 0 at the end of the string instead of raising
read_varint_lenient(h, offset) ==
    LET first == int16(Slice(h, offset, offset + 2))
        wide(n) == LET v == int16(Slice(h, offset + 2, offset + 2 + n))
                   IN [ok |-> v.ok, value |-> v.value, offset |-> offset + 2 + n]
    IN IF Slice(h, offset, offset + 2) = <<>>
       THEN [ok |-> TRUE, value |-> <<>>, offset |-> offset + 2]
       ELSE IF ~first.ok THEN [ok |-> FALSE, value |-> <<>>, offset |-> offset]
       ELSE IF Val(first.value) < 253
            THEN [ok |-> TRUE, value |-> first.value, offset |-> offset + 2]
       ELSE IF Val(first.value) = 253 THEN wide(4)
       ELSE IF Val(first.value) = 254 THEN wide(8)
       ELSE wide(16)

\* read_varint(tx_hex, offset)
read_varint(h, offset) ==
    LET first == int16(Slice(h, offset, offset + 2))
        wide(n) == LET v == int16(Slice(h, offset + 2, offset + 2 + n))
                   IN [ok |-> v.ok, value |-> v.value, offset |-> offset + 2 + n]
    IN IF ~first.ok THEN [ok |-> FALSE, value |-> <<>>, offset |-> offset]
       ELSE IF Val(first.value) < 253
            THEN [ok |-> TRUE, value |-> first.value, offset |-> offset + 2]
       ELSE IF Val(first.value) = 253 THEN wide(4)
       ELSE IF Val(first.value) = 254 THEN wide(8)
       ELSE wide(16)

----------------------------------------------------------------------------
(* parse_transaction, one step per primitive read.  A step maps the frame  *)
(* of locals to the next frame; pc is the position in the function body.   *)

\* 10^8, the divisor of line 96
SatoshiPerBtc == 100000000

\* the locals at entry (offset = 0); the other locals are unbound in Python
\* until their first assignment and are never read before it
InitFrame ==
    [pc |-> "version", offset |-> 0, version |-> <<>>, segwit |-> FALSE,
     input_count |-> <<>>, inputs |-> <<>>, txid |-> <<>>, vout |-> <<>>,
     script_len |-> <<>>, script_sig_bytes |-> <<>>,
     output_count |-> <<>>, outputs |-> <<>>, value |-> <<>>,
     witnesses |-> <<>>, witness_count |-> <<>>, witness_items |-> <<>>,
     item_len |-> <<>>, locktime |-> <<>>]

\* an uncaught ValueError leaves parse_transaction: no record is returned
Raise(fr) == [fr EXCEPT !.pc = "raised"]

\* the head of "for _ in range(input_count)"
InputLoop(fr) ==
    IF Below(Len(fr.inputs), fr.input_count) THEN "txid" ELSE "output_count"

\* the witness loop run once per output instead of once per input
WitnessLoopOverOutputs(fr) ==
    IF fr.segwit /\ Below(Len(fr.witnesses), fr.output_count)
    THEN "witness_count" ELSE "locktime"

\* "if segwit:" and the head of "for i in range(input_count)"
WitnessLoop(fr) ==
    IF fr.segwit /\ Below(Len(fr.witnesses), fr.input_count)
    THEN "witness_count" ELSE "locktime"

\* the head of "for _ in range(output_count)"
OutputLoop(fr) ==
    IF Below(Len(fr.outputs), fr.output_count) THEN "value" ELSE WitnessLoop(fr)

\* the head of "for _ in range(witness_count)"; at its end the stack is
\* appended to witnesses and the outer loop goes on
ItemLoop(fr) ==
    IF Below(Len(fr.witness_items), fr.witness_count)
    THEN [fr EXCEPT !.pc = "item_len"]
    ELSE LET done == [fr EXCEPT !.witnesses = Append(@, fr.witness_items)]
         IN [done EXCEPT !.pc = WitnessLoop(done)]

ReadVersionStep(h, fr) ==
    LET r == read_bytes(h, fr.offset, 4)
    IN IF ~r.ok THEN Raise(fr)
       ELSE [fr EXCEPT !.offset = r.offset,
                       !.version = from_bytes_little(r.bytes_data),
                       !.pc = "segwit"]

\* the SegWit check advancing past the marker only
CheckSegwitSkipsMarkerOnly(h, fr) ==
    LET marker == int16(Slice(h, fr.offset, fr.offset + 2))
        flag == int16(Slice(h, fr.offset + 2, fr.offset + 4))
    IN IF ~marker.ok \/ ~flag.ok THEN Raise(fr)
       ELSE IF marker.value = <<>> /\ flag.value # <<>>
            THEN [fr EXCEPT !.segwit = TRUE, !.offset = @ + 2,
                            !.pc = "input_count"]
            ELSE [fr EXCEPT !.segwit = FALSE, !.pc = "input_count"]

CheckSegwitStep(h, fr) ==
    LET marker == int16(Slice(h, fr.offset, fr.offset + 2))
        flag == int16(Slice(h, fr.offset + 2, fr.offset + 4))
    IN IF ~marker.ok \/ ~flag.ok THEN Raise(fr)
       ELSE IF marker.value = <<>> /\ flag.value # <<>>
            THEN [fr EXCEPT !.segwit = TRUE, !.offset = @ + 4,
                            !.pc = "input_count"]
            ELSE [fr EXCEPT !.segwit = FALSE, !.pc = "input_count"]

ReadInputCountStep(h, fr) ==
    LET r == read_varint(h, fr.offset)
    IN IF ~r.ok THEN Raise(fr)
       ELSE LET got == [fr EXCEPT !.input_count = r.value, !.offset = r.offset,
                                  !.inputs = <<>>]
            IN [got EXCEPT !.pc = InputLoop(got)]

ReadTxidStep(h, fr) ==
    LET r == read_bytes(h, fr.offset, 32)
    IN IF ~r.ok THEN Raise(fr)
       ELSE [fr EXCEPT !.offset = r.offset,
                       !.txid = hex(Reversed(r.bytes_data)),
                       !.pc = "vout"]

ReadVoutStep(h, fr) ==
    LET r == read_bytes(h, fr.offset, 4)
    IN IF ~r.ok THEN Raise(fr)
       ELSE [fr EXCEPT !.offset = r.offset,
                       !.vout = from_bytes_little(r.bytes_data),
                       !.pc = "script_len"]

ReadScriptLenStep(h, fr) ==
    LET r == read_varint(h, fr.offset)
    IN IF ~r.ok THEN Raise(fr)
       ELSE [fr EXCEPT !.script_len = r.value, !.offset = r.offset,
                       !.pc = "script_sig"]

ReadScriptSigStep(h, fr) ==
    LET r == read_bytes(h, fr.offset, Val(fr.script_len))
    IN IF ~r.ok THEN Raise(fr)
       ELSE [fr EXCEPT !.offset = r.offset,
                       !.script_sig_bytes = r.bytes_data,
                       !.pc = "sequence"]

ReadSequenceStep(h, fr) ==
    LET r == read_bytes(h, fr.offset, 4)
    IN IF ~r.ok THEN Raise(fr)
       ELSE LET got == [fr EXCEPT
                          !.offset = r.offset,
                          !.inputs = Append(@,
                              [txid |-> fr.txid, vout |-> fr.vout,
                               scriptSig |-> hex(fr.script_sig_bytes),
                               sequence |-> from_bytes_little(r.bytes_data)])]
            IN [got EXCEPT !.pc = InputLoop(got)]

ReadOutputCountStep(h, fr) ==
    LET r == read_varint(h, fr.offset)
    IN IF ~r.ok THEN Raise(fr)
       ELSE LET got == [fr EXCEPT !.output_count = r.value,
                                  !.offset = r.offset, !.outputs = <<>>]
            IN [got EXCEPT !.pc = OutputLoop(got)]

\* value = satoshis / 1e8, kept as the exact quotient num / den (Python
\* rounds it to the nearest double)
ReadValueStep(h, fr) ==
    LET r == read_bytes(h, fr.offset, 8)
    IN IF ~r.ok THEN Raise(fr)
       ELSE [fr EXCEPT !.offset = r.offset,
                       !.value = [num |-> from_bytes_little(r.bytes_data),
                                  den |-> SatoshiPerBtc],
                       !.pc = "pk_len"]

ReadPkLenStep(h, fr) ==
    LET r == read_varint(h, fr.offset)
    IN IF ~r.ok THEN Raise(fr)
       ELSE [fr EXCEPT !.script_len = r.value, !.offset = r.offset,
                       !.pc = "script_pubkey"]

ReadScriptPubKeyStep(h, fr) ==
    LET r == read_bytes(h, fr.offset, Val(fr.script_len))
    IN IF ~r.ok THEN Raise(fr)
       ELSE LET got == [fr EXCEPT
                          !.offset = r.offset,
                          !.outputs = Append(@,
                              [value |-> fr.value,
                               scriptPubKey |-> hex(r.bytes_data)])]
            IN [got EXCEPT !.pc = OutputLoop(got)]

ReadWitnessCountStep(h, fr) ==
    LET r == read_varint(h, fr.offset)
    IN IF ~r.ok THEN Raise(fr)
       ELSE ItemLoop([fr EXCEPT !.witness_count = r.value,
                                !.offset = r.offset,
                                !.witness_items = <<>>])

ReadItemLenStep(h, fr) ==
    LET r == read_varint(h, fr.offset)
    IN IF ~r.ok THEN Raise(fr)
       ELSE [fr EXCEPT !.item_len = r.value, !.offset = r.offset,
                       !.pc = "item"]

ReadItemStep(h, fr) ==
    LET r == read_bytes(h, fr.offset, Val(fr.item_len))
    IN IF ~r.ok THEN Raise(fr)
       ELSE ItemLoop([fr EXCEPT !.offset = r.offset,
                                !.witness_items = Append(@, hex(r.bytes_data))])

ReadLocktimeStep(h, fr) ==
    LET r == read_bytes(h, fr.offset, 4)
    IN IF ~r.ok THEN Raise(fr)
       ELSE [fr EXCEPT !.offset = r.offset,
                       !.locktime = from_bytes_little(r.bytes_data),
                       !.pc = "returned"]

\* the dictionary of lines 120-127 (meaningful once pc = "returned")
Record(fr) ==
    [version |-> fr.version, segwit |-> fr.segwit, inputs |-> fr.inputs,
     outputs |-> fr.outputs, witnesses |-> fr.witnesses,
     locktime |-> fr.locktime]

Done(fr) == fr.pc \in {"returned", "raised"}

\* the step the body takes at fr.pc
StepOf(h, fr) ==
    CASE fr.pc = "version" -> ReadVersionStep(h, fr)
      [] fr.pc = "segwit" -> CheckSegwitStep(h, fr)
      [] fr.pc = "input_count" -> ReadInputCountStep(h, fr)
      [] fr.pc = "txid" -> ReadTxidStep(h, fr)
      [] fr.pc = "vout" -> ReadVoutStep(h, fr)
      [] fr.pc = "script_len" -> ReadScriptLenStep(h, fr)
      [] fr.pc = "script_sig" -> ReadScriptSigStep(h, fr)
      [] fr.pc = "sequence" -> ReadSequenceStep(h, fr)
      [] fr.pc = "output_count" -> ReadOutputCountStep(h, fr)
      [] fr.pc = "value" -> ReadValueStep(h, fr)
      [] fr.pc = "pk_len" -> ReadPkLenStep(h, fr)
      [] fr.pc = "script_pubkey" -> ReadScriptPubKeyStep(h, fr)
      [] fr.pc = "witness_count" -> ReadWitnessCountStep(h, fr)
      [] fr.pc = "item_len" -> ReadItemLenStep(h, fr)
      [] fr.pc = "item" -> ReadItemStep(h, fr)
      [] fr.pc = "locktime" -> ReadLocktimeStep(h, fr)
      [] OTHER -> fr

\* parse_transaction(tx_hex) run to its end: the final frame
RECURSIVE RunFrom(_, _)
RunFrom(h, fr) == IF Done(fr) THEN fr ELSE RunFrom(h, StepOf(h, fr))

parse_transaction(h) == RunFrom(h, InitFrame)

----------------------------------------------------------------------------
(* The inputs parse_transaction is run on: transactions written in the     *)
(* wire format, then cut short, extended or damaged.                       *)

\* the hex string of line 131, on which __main__ calls parse_transaction
SampleHex ==
    <<
    "0", "2", "0", "0", "0", "0", "0", "0", "0", "0", "0", "1", "0", "1", "3", "1",
    "8", "1", "1", "c", "d", "3", "5", "5", "c", "3", "5", "7", "e", "0", "e", "0",
    "1", "4", "3", "7", "d", "9", "b", "c", "f", "6", "9", "0", "d", "f", "8", "2",
    "4", "e", "9", "f", "f", "7", "8", "5", "0", "1", "2", "b", "6", "1", "1", "5",
    "d", "f", "a", "e", "3", "d", "8", "e", "8", "b", "3", "6", "c", "1", "0", "1",
    "0", "0", "0", "0", "0", "0", "0", "0", "f", "d", "f", "f", "f", "f", "f", "f",
    "0", "2", "2", "0", "a", "1", "0", "7", "0", "0", "0", "0", "0", "0", "0", "0",
    "0", "0", "1", "6", "0", "0", "1", "4", "8", "5", "d", "7", "8", "e", "b", "7",
    "9", "5", "b", "d", "9", "c", "8", "a", "2", "1", "a", "f", "e", "f", "c", "8",
    "b", "6", "f", "d", "a", "e", "d", "f", "7", "1", "8", "3", "6", "8", "0", "9",
    "4", "c", "0", "8", "1", "0", "0", "0", "0", "0", "0", "0", "0", "0", "0", "0",
    "1", "6", "0", "0", "1", "4", "8", "4", "0", "a", "b", "1", "6", "5", "c", "9",
    "c", "2", "5", "5", "5", "d", "4", "a", "3", "1", "b", "9", "2", "0", "8", "a",
    "d", "8", "0", "6", "f", "8", "9", "d", "2", "5", "3", "5", "e", "2", "0", "2",
    "4", "7", "3", "0", "4", "4", "0", "2", "2", "0", "7", "b", "c", "e", "8", "6",
    "d", "4", "3", "0", "b", "5", "8", "b", "b", "6", "b", "7", "9", "e", "8", "c",
    "1", "b", "b", "e", "c", "d", "f", "6", "7", "a", "5", "3", "0", "e", "f", "f",
    "3", "b", "c", "6", "1", "5", "8", "1", "a", "1", "3", "9", "9", "e", "0", "b",
    "2", "8", "a", "7", "4", "1", "c", "0", "e", "e", "0", "2", "2", "0", "3", "0",
    "3", "d", "5", "c", "e", "9", "2", "6", "c", "6", "0", "b", "f", "1", "5", "5",
    "7", "7", "f", "2", "e", "4", "0", "7", "f", "2", "8", "a", "2", "e", "f", "8",
    "f", "e", "8", "4", "5", "3", "a", "b", "d", "4", "0", "4", "8", "b", "7", "1",
    "6", "e", "9", "7", "d", "b", "b", "1", "e", "3", "a", "8", "5", "c", "0", "1",
    "2", "1", "0", "2", "6", "0", "8", "2", "8", "b", "c", "7", "7", "4", "8", "6",
    "a", "5", "5", "e", "3", "b", "c", "6", "0", "3", "2", "c", "c", "b", "e", "d",
    "a", "9", "1", "5", "d", "9", "4", "9", "4", "e", "d", "a", "1", "7", "b", "4",
    "a", "5", "4", "d", "b", "e", "3", "b", "2", "4", "5", "0", "6", "d", "4", "0",
    "e", "4", "f", "f", "4", "3", "0", "3", "0", "e", "0", "0" >>

MaxIn == 2       \* inputs of a generated transaction
MaxOut == 1      \* outputs of a generated transaction with outputs
MaxScript == 1   \* bytes of a generated non-empty scriptSig
MaxTrail == 1    \* bytes appended after the locktime

\* the fields of an input's position on the wire
Pad(d, m) == [i \in 1..m |-> IF i <= m - Len(d) THEN 0 ELSE d[i - (m - Len(d))]]

BytesOfDigits(d) == [i \in 1..(Len(d) \div 2) |-> 16 * d[2 * i - 1] + d[2 * i]]

\* the w bytes of numeral n, least significant byte first
LE(n, w) == Reversed(BytesOfDigits(Pad(n, 2 * w)))

\* a compact integer: k itself in one byte (w = 0, k < 253), or the prefix
\* 0xfd, 0xfe, 0xff and k in w = 2, 4, 8 little-endian bytes
VarIntBytes(k, w) ==
    IF w = 0 THEN <<k>>
    ELSE <<(CASE w = 2 -> 253 [] w = 4 -> 254 [] OTHER -> 255)>> \o LE(Num(k), w)

RECURSIVE Concat(_)
Concat(ss) == IF ss = <<>> THEN <<>> ELSE Head(ss) \o Concat(Tail(ss))

\* the payload width of the compact integers at position pos of tx
WidthAt(tx, pos) == IF tx.wide.at = pos THEN tx.wide.w ELSE 0

InputBytes(tx, k) ==
    LET in == tx.inputs[k]
    IN in.txid \o LE(in.vout, 4)
       \o VarIntBytes(Len(in.script), WidthAt(tx, "script_len")) \o in.script
       \o LE(in.sequence, 4)

OutputBytes(tx, k) ==
    LET out == tx.outputs[k]
    IN LE(out.satoshi, 8)
       \o VarIntBytes(Len(out.script), WidthAt(tx, "pk_len")) \o out.script

StackBytes(tx, k) ==
    LET st == tx.witnesses[k]
    IN VarIntBytes(Len(st), WidthAt(tx, "witness_count"))
       \o Concat([j \in 1..Len(st) |->
                    VarIntBytes(Len(st[j]), WidthAt(tx, "item_len")) \o st[j]])

\* the serialization of tx: version, marker and flag when segwit, inputs,
\* outputs, one witness stack per input when segwit, locktime
WireBytes(tx) ==
    LE(tx.version, 4)
    \o (IF tx.segwit THEN <<0, 1>> ELSE <<>>)
    \o VarIntBytes(Len(tx.inputs), WidthAt(tx, "input_count"))
    \o Concat([k \in 1..Len(tx.inputs) |-> InputBytes(tx, k)])
    \o VarIntBytes(Len(tx.outputs), WidthAt(tx, "output_count"))
    \o Concat([k \in 1..Len(tx.outputs) |-> OutputBytes(tx, k)])
    \o (IF tx.segwit
        THEN Concat([k \in 1..Len(tx.inputs) |-> StackBytes(tx, k)])
        ELSE <<>>)
    \o LE(tx.locktime, 4)

Encode(tx) == hex(WireBytes(tx))

\* the record the wire format assigns to tx
Expected(tx) ==
    [version |-> tx.version, segwit |-> tx.segwit,
     inputs |-> [k \in 1..Len(tx.inputs) |->
                    [txid |-> hex(Reversed(tx.inputs[k].txid)),
                     vout |-> tx.inputs[k].vout,
                     scriptSig |-> hex(tx.inputs[k].script),
                     sequence |-> tx.inputs[k].sequence]],
     outputs |-> [k \in 1..Len(tx.outputs) |->
                    [value |-> [num |-> tx.outputs[k].satoshi,
                                den |-> SatoshiPerBtc],
                     scriptPubKey |-> hex(tx.outputs[k].script)]],
     witnesses |-> IF tx.segwit
                   THEN [k \in 1..Len(tx.inputs) |->
                           [j \in 1..Len(tx.witnesses[k]) |->
                               hex(tx.witnesses[k][j])]]
                   ELSE <<>>,
     locktime |-> tx.locktime]

NoWide == [at |-> "none", w |-> 0]

\* bytes a..b-1 of the sample
SampleBytes(a, b) == fromhex(Slice(SampleHex, 2 * a, 2 * b)).bytes

\* the sample transaction, field by field
SampleTx ==
    [version |-> Num(2), segwit |-> TRUE,
     inputs |-> << [txid |-> SampleBytes(7, 39), vout |-> Num(1),
                    script |-> <<>>,
                    sequence |-> <<15, 15, 15, 15, 15, 15, 15, 13>>] >>,
     outputs |-> << [satoshi |-> Num(500000), script |-> SampleBytes(58, 80)],
                    [satoshi |-> Num(1050700), script |-> SampleBytes(89, 111)] >>,
     witnesses |-> << << SampleBytes(113, 184), SampleBytes(185, 218) >> >>,
     locktime |-> Num(918339),
     wide |-> NoWide]

\* a generated transaction: nin inputs, nout outputs, scripts of slen bytes
Generated(sw, nin, nout, slen, wide) ==
    [version |-> Num(1), segwit |-> sw,
     inputs |-> [k \in 1..nin |->
                    [txid |-> [j \in 1..32 |-> 32 * k + j],
                     vout |-> Num(k - 1),
                     script |-> [j \in 1..slen |-> 160 + 8 * k + j],
                     sequence |-> Num(k + 1)]],
     outputs |-> [k \in 1..nout |->
                    [satoshi |-> Num(1000 * k),
                     script |-> [j \in 1..(slen + 1) |-> 200 + 8 * k + j]]],
     witnesses |-> [k \in 1..nin |->
                    [j \in 1..(k - 1) |-> [i \in 1..(slen + j) |-> 220 + 4 * j + i]]],
     locktime |-> Num(7),
     wide |-> wide]

\* a legacy transaction whose only input has a scriptSig of 256 zero bytes,
\* its length written fd 00 01
LongScriptTx ==
    [version |-> Num(1), segwit |-> FALSE,
     inputs |-> << [txid |-> [j \in 1..32 |-> j], vout |-> Num(0),
                    script |-> [j \in 1..256 |-> 0],
                    sequence |-> Num(2)] >>,
     outputs |-> << [satoshi |-> Num(1000), script |-> <<201>>] >>,
     witnesses |-> <<>>,
     locktime |-> Num(7),
     wide |-> [at |-> "script_len", w |-> 2]]

\* the compact integers of tx at position pos
VarIntsAt(tx, pos) ==
    CASE pos = "input_count" -> {Len(tx.inputs)}
      [] pos = "script_len" -> {Len(tx.inputs[k].script) : k \in 1..Len(tx.inputs)}
      [] pos = "output_count" -> {Len(tx.outputs)}
      [] pos = "pk_len" -> {Len(tx.outputs[k].script) : k \in 1..Len(tx.outputs)}
      [] pos = "witness_count" ->
            IF tx.segwit THEN {Len(tx.witnesses[k]) : k \in 1..Len(tx.inputs)} ELSE {}
      [] pos = "item_len" ->
            IF tx.segwit
            THEN UNION {{Len(tx.witnesses[k][j]) : j \in 1..Len(tx.witnesses[k])} :
                           k \in 1..Len(tx.inputs)}
            ELSE {}
      [] OTHER -> {}

WidePositions == {"input_count", "script_len", "output_count", "pk_len",
                  "witness_count", "item_len"}

\* the transactions decoded.  A generated legacy transaction without inputs and with
\* outputs starts like a marker and flag and is left out; an 8-byte compact
\* integer is used for 0 only, so that every integer the decoder computes
\* with stays below 2^31.
Transactions ==
    {SampleTx, LongScriptTx} \cup
    {tx \in {Generated(sw, nin, nout, slen, wide) :
                sw \in BOOLEAN, nin \in 0..MaxIn, nout \in {0, MaxOut},
                slen \in {0, MaxScript},
                wide \in {NoWide} \cup [at : WidePositions, w : {2, 4, 8}]} :
        /\ tx.segwit \/ Len(tx.inputs) > 0 \/ Len(tx.outputs) = 0
        /\ tx.wide.w > 0 => VarIntsAt(tx, tx.wide.at) # {}
        /\ tx.wide.w = 8 => VarIntsAt(tx, tx.wide.at) = {0}}

\* the bytes that may follow the locktime
TrailBytes == {0, 1, 255}

RECURSIVE ByteStrings(_)
ByteStrings(n) ==
    IF n = 0 THEN {<<>>}
    ELSE {Append(t, b) : t \in ByteStrings(n - 1), b \in TrailBytes}

\* s with its p-th character replaced by c
Replace(s, p, c) == [i \in 1..Len(s) |-> IF i = p THEN c ELSE s[i]]

\* the strings made from the valid encoding h: h itself, every prefix of h
\* cut at a byte boundary, h with bytes after it, h with a non-hex byte after
\* it, h made odd by one character more or less and, for a transaction of
\* one-byte compact integers (all), h with any one character replaced by a
\* non-hex one
Edits(h, all) ==
    {[edit |-> "exact", hex |-> h]}
    \cup {[edit |-> "cut", hex |-> SubSeq(h, 1, 2 * n)] :
             n \in 0..((Len(h) \div 2) - 1)}
    \cup {[edit |-> "trail", hex |-> h \o hex(t)] :
             t \in UNION {ByteStrings(n) : n \in 1..MaxTrail}}
    \cup {[edit |-> "nonhex", hex |-> Replace(h, p, "g")] :
             p \in IF all THEN 1..Len(h) ELSE {}}
    \cup {[edit |-> "nonhex", hex |-> h \o <<"g", "g">>],
          [edit |-> "odd", hex |-> h \o <<"0">>],
          [edit |-> "odd", hex |-> SubSeq(h, 1, Len(h) - 1)]}

----------------------------------------------------------------------------
(* The state machine: one call of parse_transaction *)

Init ==
    \E tx \in Transactions :
        \E e \in Edits(Encode(tx), tx.wide = NoWide) :
            /\ origin = [tx |-> tx, edit |-> e.edit]
            /\ tx_hex = e.hex
            /\ frame = InitFrame

At(pc) == frame.pc = pc /\ UNCHANGED <<tx_hex, origin>>

ReadVersion == At("version") /\ frame' = ReadVersionStep(tx_hex, frame)

CheckSegwit == At("segwit") /\ frame' = CheckSegwitStep(tx_hex, frame)

ReadInputCount == At("input_count") /\ frame' = ReadInputCountStep(tx_hex, frame)

ReadTxid == At("txid") /\ frame' = ReadTxidStep(tx_hex, frame)

ReadVout == At("vout") /\ frame' = ReadVoutStep(tx_hex, frame)

ReadScriptLen == At("script_len") /\ frame' = ReadScriptLenStep(tx_hex, frame)

ReadScriptSig == At("script_sig") /\ frame' = ReadScriptSigStep(tx_hex, frame)

ReadSequence == At("sequence") /\ frame' = ReadSequenceStep(tx_hex, frame)

ReadOutputCount == At("output_count") /\ frame' = ReadOutputCountStep(tx_hex, frame)

ReadValue == At("value") /\ frame' = ReadValueStep(tx_hex, frame)

ReadPkLen == At("pk_len") /\ frame' = ReadPkLenStep(tx_hex, frame)

ReadScriptPubKey == At("script_pubkey") /\ frame' = ReadScriptPubKeyStep(tx_hex, frame)

ReadWitnessCount == At("witness_count") /\ frame' = ReadWitnessCountStep(tx_hex, frame)

ReadItemLen == At("item_len") /\ frame' = ReadItemLenStep(tx_hex, frame)

ReadItem == At("item") /\ frame' = ReadItemStep(tx_hex, frame)

ReadLocktime == At("locktime") /\ frame' = ReadLocktimeStep(tx_hex, frame)

Next ==
    \/ ReadVersion
    \/ CheckSegwit
    \/ ReadInputCount
    \/ ReadTxid
    \/ ReadVout
    \/ ReadScriptLen
    \/ ReadScriptSig
    \/ ReadSequence
    \/ ReadOutputCount
    \/ ReadValue
    \/ ReadPkLen
    \/ ReadScriptPubKey
    \/ ReadWitnessCount
    \/ ReadItemLen
    \/ ReadItem
    \/ ReadLocktime

Spec == Init /\ [][Next]_vars

----------------------------------------------------------------------------
(* Properties *)

Returned == frame.pc = "returned"

Raised == frame.pc = "raised"

\* tx_hex is no hexadecimal string: odd length, or a non-hex character
Malformed(h) == Len(h) % 2 # 0 \/ ~IsHex(h)

\* whether byte k (from 0) of h is there, and its value
HasByte(h, k) == Len(h) >= 2 * k + 2 /\ IsHex(Slice(h, 2 * k, 2 * k + 2))

ByteAt(h, k) == fromhex(Slice(h, 2 * k, 2 * k + 2)).bytes[1]

\* C1: truncation is fatal: on a proper prefix of a valid transaction, cut
\* at a byte boundary, parse_transaction never returns a record.
C1_TruncationIsFatal == origin.edit = "cut" => ~Returned

\* the payload width the first byte of a compact integer announces
PayloadWidth(b) == CASE b < 253 -> 0 [] b = 253 -> 2 [] b = 254 -> 4 [] OTHER -> 8

VarintPcs == {"input_count", "script_len", "output_count", "pk_len",
              "witness_count", "item_len"}

\* C2: read_varint agrees with the compact-integer format: wherever the
\* decoder is about to read a compact integer whose bytes are all there, a
\* first byte b < 0xfd gives b and advances by 1 byte, and 0xfd, 0xfe, 0xff
\* give the next 2, 4, 8 bytes read little-endian and advance by 3, 5, 9.
C2_VarintIsLittleEndian ==
    (frame.pc \in VarintPcs /\ HasByte(tx_hex, frame.offset \div 2)) =>
        LET at == frame.offset \div 2
            w == PayloadWidth(ByteAt(tx_hex, at))
            payload == fromhex(Slice(tx_hex, 2 * (at + 1), 2 * (at + 1 + w)))
            r == read_varint(tx_hex, frame.offset)
        IN (frame.offset % 2 = 0 /\ payload.ok /\ Len(payload.bytes) = w) =>
              /\ r.ok
              /\ r.offset = frame.offset + 2 * (1 + w)
              /\ IF w = 0 THEN r.value = Num(ByteAt(tx_hex, at))
                 ELSE LE(r.value, w) = payload.bytes

\* C3: SegWit detection commits or rewinds: with m and f the bytes after
\* the version, m = 0 and f # 0 gives segwit and the input count is read at
\* byte 6; otherwise segwit is false and the input count is read at byte 4,
\* m being its first byte.
C3_SegwitCommitOrRewind ==
    [][LET m == ByteAt(tx_hex, 4)
           f == ByteAt(tx_hex, 5)
           start == IF m = 0 /\ f # 0 THEN 6 ELSE 4
       IN /\ (frame.pc = "segwit" /\ frame'.pc = "input_count") =>
                /\ frame'.segwit = (m = 0 /\ f # 0)
                /\ frame'.offset = 2 * start
          /\ (frame.pc = "input_count" /\ frame'.pc # "raised") =>
                /\ frame.offset = 2 * start
                /\ frame'.offset > frame.offset
                /\ ByteAt(tx_hex, start) < 253 =>
                      /\ frame'.input_count = Num(ByteAt(tx_hex, start))
                      /\ frame'.offset = 2 * (start + 1)]_vars

\* a legacy transaction whose input count was read at byte 4 (the marker
\* position) and one byte long
C3_Witness ==
    /\ ~frame.segwit /\ frame.pc = "txid" /\ frame.inputs = <<>>
    /\ frame.offset = 10 /\ ByteAt(tx_hex, 4) # 0

\* C4: inputs and witness stacks stay aligned: a returned record has no
\* witnesses when segwit is false and one stack per input when it is true,
\* and for a transaction of one-byte compact integers the i-th stack is the
\* one of the i-th input.
C4_WitnessesAligned ==
    Returned =>
        /\ ~frame.segwit => frame.witnesses = <<>>
        /\ frame.segwit => Len(frame.witnesses) = Len(frame.inputs)
        /\ Len(frame.inputs) = Val(frame.input_count)
        /\ (origin.edit = "exact" /\ origin.tx.wide = NoWide) =>
              frame.witnesses = Expected(origin.tx).witnesses

\* a segwit record of two inputs whose second stack holds an item
C4_Witness ==
    /\ Returned /\ frame.segwit /\ Len(frame.inputs) = 2
    /\ Len(frame.witnesses) = 2 /\ frame.witnesses[2] # <<>>

\* C5: MalformedHex comes first: on a string that is no hexadecimal string
\* parse_transaction ends in an error before any field is parsed.
C5_MalformedHexFirst ==
    Malformed(tx_hex) => frame \in {InitFrame, Raise(InitFrame)}

\* C6: input list decoding: the record returned for a transaction that is
\* not truncated holds exactly its inputs, in wire order, each with its
\* txid reversed, its vout and sequence little-endian and its scriptSig of
\* the declared length.
C6_InputsDecoded ==
    (origin.edit \in {"exact", "trail"} /\ Returned) =>
        frame.inputs = Expected(origin.tx).inputs

\* the sample decoded with second output value v satoshis
SampleDecodedWith(v) ==
    /\ Returned
    /\ frame.version = Num(2)
    /\ frame.segwit
    /\ Len(frame.inputs) = 1
    /\ frame.inputs[1].vout = Num(1)
    /\ frame.inputs[1].sequence = <<15, 15, 15, 15, 15, 15, 15, 13>>
    /\ Len(frame.outputs) = 2
    /\ frame.outputs[1].value = [num |-> Num(500000), den |-> SatoshiPerBtc]
    /\ frame.outputs[2].value = [num |-> Num(v), den |-> SatoshiPerBtc]
    /\ Len(frame.witnesses) = 1
    /\ Len(frame.witnesses[1]) = 2
    /\ frame.locktime = <<14, 0, 3, 4, 3>>

\* C7 as stated: decoding the sample yields version 2, segwit, 1 input with
\* vout 1 and sequence 0xfffffffd, 2 outputs of 500,000 and 100,000
\* satoshis, 1 witness stack of 2 items and locktime 0x000e0343.
C7_SampleAsStated ==
    (tx_hex = SampleHex /\ Done(frame)) => SampleDecodedWith(100000)

\* C7 amended: the same, the second output being 1,050,700 satoshis
\* (0.01050700 BTC).
C7_SampleDecoded ==
    (tx_hex = SampleHex /\ Done(frame)) => SampleDecodedWith(1050700)

\* the sample decoded to its end
C7_Witness == tx_hex = SampleHex /\ Returned /\ Len(frame.outputs) = 2

\* C8: trailing data is tolerated: a valid transaction followed by extra
\* bytes decodes without error to the record of the transaction alone.
C8_TrailingDataIgnored ==
    (origin.edit = "trail" /\ Done(frame)) =>
        /\ Returned
        /\ LET alone == parse_transaction(Encode(origin.tx))
           IN alone.pc = "returned" /\ Record(frame) = Record(alone)

RECURSIVE SumLen(_)
SumLen(ss) == IF ss = <<>> THEN 0 ELSE Len(Head(ss)) + SumLen(Tail(ss))

\* the loop iterations completed so far: inputs, outputs, witness stacks
\* and witness items appended
LoopWork ==
    Len(frame.inputs) + Len(frame.outputs) + Len(frame.witnesses)
    + SumLen(frame.witnesses)
    + (IF frame.pc \in {"item_len", "item"} THEN Len(frame.witness_items) ELSE 0)

\* the characters of the input at and after the cursor
Remaining(fr) == IF fr.offset < Len(tx_hex) THEN Len(tx_hex) - fr.offset ELSE 0

\* the steps a frame can take before its next compact-integer read, plus one
Rank(pc) ==
    CASE pc \in VarintPcs \cup {"locktime"} -> 1
      [] pc \in {"segwit", "vout", "value", "item"} -> 2
      [] pc \in {"version", "txid", "script_pubkey"} -> 3
      [] pc = "sequence" -> 4
      [] pc = "script_sig" -> 5
      [] OTHER -> 0

\* a bound on the steps left: no more than 6 for every character left
Measure(fr) == IF Done(fr) THEN 0 ELSE 6 * Remaining(fr) + Rank(fr.pc)

C10_CursorInvariant ==
    [][/\ frame.offset <= frame'.offset
       /\ frame'.offset <= Len(tx_hex)
       /\ frame'.offset - frame.offset
             = Len(Slice(tx_hex, frame.offset, frame'.offset))]_vars

====
